---- MODULE Spec2Model ----
(***************************************************************************)
(* SM-2 spaced-repetition scheduler of jingxuezhuo/sm2-learning-system.    *)
(*                                                                         *)
(*   prod_backend/sm2_card.py    SM2Card: one card and its review() step   *)
(*   prod_backend/sm2_system.py  SM2System: dict of cards, JSON save file  *)
(*   prod_backend/db.py          the Mongo "cards" collection              *)
(*   prod_backend/server.py      the Flask request handlers                *)
(*                                                                         *)
(* Representation.                                                         *)
(*   - A str is a sequence: a card_id is the sequence of its character     *)
(*     codes (digits), so that Python's str ordering is the lexicographic  *)
(*     order of sequences; a 'YYYY-MM-DD' date string is <<y, m, d>>.      *)
(*   - A datetime is <<o, h>>: o is the proleptic Gregorian ordinal of its *)
(*     calendar day (0001-01-01 = 1, as datetime.toordinal) and h its hour *)
(*     of the day. The handlers of server.py get every datetime from       *)
(*     strptime(.., '%Y-%m-%d'), which gives midnight; the methods of      *)
(*     SM2System take the datetime their caller passes, any time of day.   *)
(*   - ef is a float in the code. Every value it takes is a multiple of    *)
(*     0.01 up to binary rounding error, so ef is kept in hundredths       *)
(*     (250 = 2.5). The rounding error matters in one place only,          *)
(*     round(interval * ef), when interval * ef is a decimal tie (x.5):    *)
(*     the error decides which neighbour Python's round() returns          *)
(*     (45 * 2.9000000000000004 rounds to 131, while 25 * 2.5 rounds to    *)
(*     62). The model therefore allows both neighbours at a decimal tie.   *)
(*   - None is <<>>, which differs from every record, datetime and date    *)
(*     string of the model. An absent or empty card_id is <<>> too: the    *)
(*     code tests both with "not card_id".                                 *)
(*   - A JSON object (a request body, a Mongo document, a $set) is a       *)
(*     record; a key the object lacks is a field the record lacks.         *)
(*   - inflight holds the requests the server is handling at the same      *)
(*     time, each with the place its handler has reached; it is None       *)
(*     where requests are handled one at a time.                           *)
(***************************************************************************)
EXTENDS Integers, Sequences, FiniteSets, TLC

VARIABLES card, cards, file, db, resp, inflight

vars == <<card, cards, file, db, resp, inflight>>

None == <<>>

(***************************************************************************)
(* Bounds of the model.                                                    *)
(***************************************************************************)
\* reviews of one card (review_count) explored before review is disabled
MaxReviews == 5

(***************************************************************************)
(* datetime: calendar arithmetic (proleptic Gregorian, as Python's).       *)
(***************************************************************************)
IsLeap(y) == (y % 4 = 0) /\ ((y % 100 # 0) \/ (y % 400 = 0))

DaysInMonth(y, m) ==
    IF m = 2 THEN (IF IsLeap(y) THEN 29 ELSE 28)
    ELSE IF m \in {4, 6, 9, 11} THEN 30 ELSE 31

\* days in the years before year y
DaysBeforeYear(y) ==
    (y - 1) * 365 + ((y - 1) \div 4) - ((y - 1) \div 100) + ((y - 1) \div 400)

RECURSIVE DaysBeforeMonth(_, _)
DaysBeforeMonth(y, m) ==
    IF m <= 1 THEN 0 ELSE DaysBeforeMonth(y, m - 1) + DaysInMonth(y, m - 1)

\* datetime.strptime(s, '%Y-%m-%d'): ValueError (here None) unless s names a
\* day of the calendar
strptime(s) ==
    IF /\ Len(s) = 3
       /\ s[1] \in 1..9999
       /\ s[2] \in 1..12
       /\ s[3] \in 1..DaysInMonth(s[1], s[2])
    THEN <<DaysBeforeYear(s[1]) + DaysBeforeMonth(s[1], s[2]) + s[3], 0>>
    ELSE None

\* datetime(year, month, day, hour), the day given as for strptime
datetime(s, hour) == <<strptime(s)[1], hour>>

\* the year holding ordinal dt, searched upwards from the lower estimate y
RECURSIVE YearOf(_, _)
YearOf(y, dt) == IF dt <= DaysBeforeYear(y + 1) THEN y ELSE YearOf(y + 1, dt)

\* the month of year y holding the day with n days of the year before it
RECURSIVE MonthOf(_, _, _)
MonthOf(y, m, n) ==
    IF n < DaysInMonth(y, m) THEN <<m, n>> ELSE MonthOf(y, m + 1, n - DaysInMonth(y, m))

\* dt.strftime('%Y-%m-%d')
strftime(dt) ==
    LET y  == YearOf((dt[1] \div 366) + 1, dt[1])
        mn == MonthOf(y, 1, dt[1] - DaysBeforeYear(y) - 1)
    IN  <<y, mn[1], mn[2] + 1>>

\* dt + timedelta(days=k)
timedelta(dt, k) == <<dt[1] + k, dt[2]>>

\* a <= b for two datetimes
DatetimeLE(a, b) == a[1] < b[1] \/ (a[1] = b[1] /\ a[2] <= b[2])

(***************************************************************************)
(* Inputs.                                                                 *)
(***************************************************************************)
\* the ratings of the SM-2 scale
Ratings == 0..5

\* 'YYYY-MM-DD' strings the callers send: the days of the spec's scenario and
\* the day before a leap day
DateStrs == {<<2024, 1, 1>>, <<2024, 1, 2>>, <<2024, 1, 8>>, <<2024, 2, 28>>}

(***************************************************************************)
(* sm2_card.py: SM2Card                                                    *)
(***************************************************************************)
\* SM2Card.__init__
SM2Card(card_id, first_date) ==
    [card_id      |-> card_id,
     first_date   |-> first_date,
     ef           |-> 250,
     n            |-> 0,
     interval     |-> 0,
     next_review  |-> None,
     review_count |-> 0,
     name         |-> "",
     tags         |-> <<>>,
     note         |-> "",
     images       |-> <<>>]

max(a, b) == IF a >= b THEN a ELSE b

\* round(x) of a float x >= 0 given in hundredths: the nearest integer, either
\* neighbour when x is a decimal tie
round(x100) ==
    LET f == x100 \div 100
        r == x100 % 100
    IN  IF r < 50 THEN {f} ELSE IF r > 50 THEN {f + 1} ELSE {f, f + 1}

\* line 42: self.ef = max(1.3, self.ef + (0.1 - (5 - q) * (0.08 + (5 - q) * 0.02)))
review_ef_unclamped(ef, q) == ef + (10 - (5 - q) * (8 + (5 - q) * 2))

review_ef_linear(ef, q) == max(130, ef + 10 * (q - 3))

review_ef(ef, q) == max(130, ef + (10 - (5 - q) * (8 + (5 - q) * 2)))

\* lines 44-48: self.n after the review
review_n_kept_on_fail(n, q) == IF q < 3 THEN n ELSE n + 1

review_n(n, q) == IF q < 3 THEN 0 ELSE n + 1

\* lines 44-54: the values self.interval can take, given the card before the
\* review and the ef and n just assigned
review_interval_old_ef(self, ef, n, q) ==
    IF q < 3 THEN {1}
    ELSE IF n = 1 THEN {1}
    ELSE IF n = 2 THEN {6}
    ELSE round(self.interval * self.ef)

review_interval_kept_on_fail(self, ef, n, q) ==
    IF q < 3 THEN {self.interval}
    ELSE IF n = 1 THEN {1}
    ELSE IF n = 2 THEN {6}
    ELSE round(self.interval * ef)

review_interval_from_n(self, ef, n, q) ==
    IF q < 3 THEN {1}
    ELSE IF n = 1 THEN {1}
    ELSE IF n = 2 THEN {6}
    ELSE round(n * ef)

review_interval(self, ef, n, q) ==
    IF q < 3 THEN {1}
    ELSE IF n = 1 THEN {1}
    ELSE IF n = 2 THEN {6}
    ELSE round(self.interval * ef)

\* line 57: self.next_review = review_date + timedelta(days=self.interval)
review_next_review_from_first_date(self, review_date, interval) ==
    timedelta(strptime(self.first_date), interval)

review_next_review(self, review_date, interval) == timedelta(review_date, interval)

\* SM2Card.review(q, review_date): the cards self can be afterwards
review(self, q, review_date) ==
    LET ef == review_ef(self.ef, q)
        n  == review_n(self.n, q)
    IN  { [self EXCEPT !.ef           = ef,
                       !.n            = n,
                       !.interval     = interval,
                       !.next_review  = review_next_review(self, review_date, interval),
                       !.review_count = self.review_count + 1]
          : interval \in review_interval(self, ef, n, q) }

(***************************************************************************)
(* The response of the last call: what the caller observes.                *)
(***************************************************************************)
\* op, card_id, score, date: the call; before: the card the call found, as it
\* was; status, body: the outcome and the value returned
Resp(op, card_id, score, date, before, status, body) ==
    [op |-> op, card_id |-> card_id, score |-> score, date |-> date,
     before |-> before, status |-> status, body |-> body]

(***************************************************************************)
(* Spec: one SM2Card, created and reviewed any number of times.            *)
(***************************************************************************)
Init ==
    /\ \E first_date \in DateStrs : card = SM2Card(<<1, 0>>, first_date)
    /\ cards = <<>>
    /\ file = None
    /\ db = <<>>
    /\ resp = Resp("init", None, None, None, None, None, None)
    /\ inflight = None

\* card.review(q, review_date)
CardReview ==
    \E q \in Ratings, s \in DateStrs :
       /\ card.review_count < MaxReviews
       /\ \E c \in review(card, q, strptime(s)) : card' = c
       /\ resp' = Resp("review", card.card_id, q, s, card, "ok", None)
       /\ UNCHANGED <<cards, file, db, inflight>>

Next == CardReview

Spec == Init /\ [][Next]_vars

(***************************************************************************)
(* Python values used by the collection code.                              *)
(***************************************************************************)
\* data.get(key, default)
Get(data, key, default) == IF key \in DOMAIN data THEN data[key] ELSE default

\* a < b for two str (sequences of character codes): Python's str ordering
RECURSIVE StrLess(_, _)
StrLess(a, b) ==
    IF b = <<>> THEN FALSE
    ELSE IF a = <<>> THEN TRUE
    ELSE IF a[1] # b[1] THEN a[1] < b[1]
    ELSE StrLess(Tail(a), Tail(b))

\* list.sort(key=lambda x: x.card_id): x inserted into the sorted list L,
\* after the elements whose key is not greater (the sort is stable)
RECURSIVE Insert(_, _)
Insert(x, L) ==
    IF L = <<>> THEN <<x>>
    ELSE IF StrLess(x.card_id, L[1].card_id) THEN <<x>> \o L
    ELSE <<L[1]>> \o Insert(x, Tail(L))

RECURSIVE SortByCardId(_)
SortByCardId(L) ==
    IF L = <<>> THEN <<>>
    ELSE Insert(L[Len(L)], SortByCardId(SubSeq(L, 1, Len(L) - 1)))

\* the index of the first element of L with this card_id, 0 if there is none
RECURSIVE IndexFrom(_, _, _)
IndexFrom(L, card_id, i) ==
    IF i > Len(L) THEN 0
    ELSE IF L[i].card_id = card_id THEN i
    ELSE IndexFrom(L, card_id, i + 1)

IndexOf(L, card_id) == IndexFrom(L, card_id, 1)

(***************************************************************************)
(* sm2_system.py: SM2System. self.cards is a dict, which keeps its keys in *)
(* insertion order: here the sequence of its values (each holds its key,   *)
(* card_id). The save file is None while it does not exist, and else the   *)
(* sequence of the entries of the JSON object.                             *)
(***************************************************************************)
\* self.cards.get(card_id)
cards_get(cs, card_id) ==
    IF IndexOf(cs, card_id) = 0 THEN None ELSE cs[IndexOf(cs, card_id)]

\* self.cards[card_id] = c
cards_set(cs, card_id, c) ==
    IF IndexOf(cs, card_id) = 0 THEN Append(cs, c)
    ELSE [cs EXCEPT ![IndexOf(cs, card_id)] = c]

\* SM2System._save: the entries written to the file
SM2System_save(cs) ==
    [i \in 1..Len(cs) |->
        [card_id      |-> cs[i].card_id,
         first_date   |-> cs[i].first_date,
         ef           |-> cs[i].ef,
         n            |-> cs[i].n,
         interval     |-> cs[i].interval,
         next_review  |-> IF cs[i].next_review # None
                          THEN strftime(cs[i].next_review) ELSE None,
         review_count |-> cs[i].review_count,
         name         |-> cs[i].name,
         tags         |-> cs[i].tags,
         note         |-> cs[i].note,
         images       |-> cs[i].images]]

\* SM2System._load: self.cards rebuilt from the file; a key other than those
\* read below (link, for one) is dropped
SM2System_load(f) ==
    IF f = None THEN <<>>
    ELSE [i \in 1..Len(f) |->
            [SM2Card(f[i].card_id, f[i].first_date) EXCEPT
                !.ef           = Get(f[i], "ef", 250),
                !.n            = Get(f[i], "n", 0),
                !.interval     = Get(f[i], "interval", 0),
                !.next_review  = IF Get(f[i], "next_review", None) # None
                                 THEN strptime(f[i].next_review) ELSE None,
                !.review_count = Get(f[i], "review_count", 0),
                !.name         = Get(f[i], "name", ""),
                !.tags         = Get(f[i], "tags", <<>>),
                !.note         = Get(f[i], "note", ""),
                !.images       = Get(f[i], "images", <<>>)]]

\* what a method of SM2System leaves: self.cards, the file, and the exception
\* it raised or "returned"
Left(cs, f, status) == [cards |-> cs, file |-> f, status |-> status]

\* SM2System.add_card
SM2System_add_card(cs, f, card_id, first_date, score, review_date) ==
    { Left(cards_set(cs, card_id, c), SM2System_save(cards_set(cs, card_id, c)), "returned")
      : c \in review(SM2Card(card_id, first_date), score, review_date) }

\* SM2System.review_card
SM2System_review_card_upsert(cs, f, card_id, score, review_date) ==
    IF cards_get(cs, card_id) = None
    THEN SM2System_add_card(cs, f, card_id, strftime(review_date), score, review_date)
    ELSE { Left(cards_set(cs, card_id, c), SM2System_save(cards_set(cs, card_id, c)), "returned")
           : c \in review(cards_get(cs, card_id), score, review_date) }

SM2System_review_card(cs, f, card_id, score, review_date) ==
    IF cards_get(cs, card_id) = None
    THEN {Left(cs, f, "returned")}
    ELSE { Left(cards_set(cs, card_id, c), SM2System_save(cards_set(cs, card_id, c)), "returned")
           : c \in review(cards_get(cs, card_id), score, review_date) }

\* SM2System.get_due_cards
SM2System_is_due(c, today) == c.next_review # None /\ DatetimeLE(c.next_review, today)

SM2System_get_due_cards(cs, today) ==
    LET Due(c) == SM2System_is_due(c, today) IN SortByCardId(SelectSeq(cs, Due))

(***************************************************************************)
(* SpecSystem: one SM2System and its save file, used by one caller.        *)
(***************************************************************************)
\* reviews of one card of the SM2System explored
MaxSystemReviews == 2

\* the ratings the caller passes: a failure and a perfect recall
SystemScores == {2, 5}

\* card ids "9" and "10": "10" sorts before "9" as a str
SystemCardIds == {<<9>>, <<1, 0>>}

SystemDateStrs == {<<2024, 1, 1>>, <<2024, 1, 2>>}

\* the review_date of a call: midnight of these days, or noon of the first
SystemDatetimes ==
    {strptime(s) : s \in SystemDateStrs} \cup {datetime(<<2024, 1, 1>>, 12)}

\* the days asked for by get_due_cards: from the first review day to past the
\* latest next_review of two passes
SystemTodayStrs == SystemDateStrs \cup {<<2024, 1, 3>>, <<2024, 1, 8>>}

\* the today of get_due_cards: midnight of these days, or an evening
SystemTodays ==
    {strptime(s) : s \in SystemTodayStrs} \cup {datetime(<<2024, 1, 2>>, 18)}

\* the save file found at the first start: none, or one holding a record with
\* every field of the persistence contract, link included
SystemFiles ==
    {None,
     <<[card_id      |-> <<9>>,
        first_date   |-> <<2024, 1, 1>>,
        ef           |-> 250,
        n            |-> 1,
        interval     |-> 1,
        next_review  |-> <<2024, 1, 2>>,
        review_count |-> 1,
        name         |-> "Two Sum",
        tags         |-> <<"array">>,
        note         |-> "hash map",
        images       |-> <<"a.png">>,
        link         |-> "https://leetcode.com/problems/two-sum"]>>}

InitSystem ==
    /\ card = None
    /\ file \in SystemFiles
    /\ cards = SM2System_load(file)
    /\ db = <<>>
    /\ resp = Resp("init", None, None, None, None, None, None)
    /\ inflight = None

\* the model stops reviewing a card that has MaxSystemReviews reviews
SystemCapped(cs) == \A i \in 1..Len(cs) : cs[i].review_count <= MaxSystemReviews

\* the caller sees self.cards and the file before and after each call
Before == [cards |-> cards, file |-> file]

\* system.add_card(card_id, first_date, score, review_date)
SystemAddCard ==
    \E card_id \in SystemCardIds, score \in SystemScores, s \in SystemDatetimes :
       /\ \E o \in SM2System_add_card(cards, file, card_id, <<2024, 1, 1>>, score, s) :
             /\ cards' = o.cards
             /\ file' = o.file
             /\ resp' = Resp("add_card", card_id, score, s, Before, o.status, None)
       /\ UNCHANGED <<card, db, inflight>>

\* system.review_card(card_id, score, review_date)
SystemReviewCard ==
    \E card_id \in SystemCardIds, score \in SystemScores, s \in SystemDatetimes :
       /\ \E o \in SM2System_review_card(cards, file, card_id, score, s) :
             /\ SystemCapped(o.cards)
             /\ cards' = o.cards
             /\ file' = o.file
             /\ resp' = Resp("review_card", card_id, score, s, Before, o.status, None)
       /\ UNCHANGED <<card, db, inflight>>

\* system.get_due_cards(today)
SystemGetDueCards ==
    \E s \in SystemTodays :
       /\ resp' = Resp("get_due_cards", None, None, s, Before, "returned",
                       SM2System_get_due_cards(cards, s))
       /\ UNCHANGED <<card, cards, file, db, inflight>>

\* the process ends and a new SM2System is constructed on the same file
SystemRestart ==
    /\ cards' = SM2System_load(file)
    /\ resp' = Resp("__init__", None, None, None, Before, "returned", None)
    /\ UNCHANGED <<card, file, db, inflight>>

NextSystem ==
    \/ SystemAddCard
    \/ SystemReviewCard
    \/ SystemGetDueCards
    \/ SystemRestart

SpecSystem == InitSystem /\ [][NextSystem]_vars

(***************************************************************************)
(* db.py: the Mongo collection "cards", restricted to the documents of one *)
(* user_id (every query of db.py filters on it): the sequence of the       *)
(* documents in natural (insertion) order, which find() and find_one()     *)
(* follow when no sort is given.                                           *)
(***************************************************************************)
\* {"$set": updates} applied to a document
Set(doc, updates) ==
    [k \in (DOMAIN doc) \cup (DOMAIN updates) |->
        IF k \in DOMAIN updates THEN updates[k] ELSE doc[k]]

get_user_cards(d) == d

get_card(d, cid) == IF IndexOf(d, cid) = 0 THEN None ELSE d[IndexOf(d, cid)]

add_card(d, data) == Append(d, data)

update_card(d, cid, updates) ==
    IF IndexOf(d, cid) = 0 THEN d
    ELSE [d EXCEPT ![IndexOf(d, cid)] = Set(d[IndexOf(d, cid)], updates)]

delete_card_drop_collection(d, cid) == IF IndexOf(d, cid) = 0 THEN d ELSE <<>>

delete_card(d, cid) ==
    IF IndexOf(d, cid) = 0 THEN d
    ELSE SubSeq(d, 1, IndexOf(d, cid) - 1) \o SubSeq(d, IndexOf(d, cid) + 1, Len(d))

(***************************************************************************)
(* server.py: the request handlers. A handler maps the collection and the  *)
(* JSON body of the request to the set of its possible outcomes, each the  *)
(* collection afterwards and the response [code, json].                    *)
(***************************************************************************)
Outcome(d, code, json) == [db |-> d, resp |-> [code |-> code, json |-> json]]

\* the SM2Card a review or batch handler rebuilds from a stored document
card_of(doc) ==
    [SM2Card(doc.card_id, doc.first_date) EXCEPT
        !.ef           = Get(doc, "ef", 250),
        !.n            = Get(doc, "n", 0),
        !.interval     = Get(doc, "interval", 0),
        !.review_count = Get(doc, "review_count", 0)]

\* the updates dict of review_card_api and batch_add_cards
review_updates_without_count(c, date_str) ==
    [ef               |-> c.ef,
     n                |-> c.n,
     interval         |-> c.interval,
     next_review      |-> IF c.next_review # None THEN strftime(c.next_review) ELSE None,
     last_review_date |-> date_str]

review_updates_with_description(c, date_str) ==
    [ef               |-> c.ef,
     n                |-> c.n,
     interval         |-> c.interval,
     next_review      |-> IF c.next_review # None THEN strftime(c.next_review) ELSE None,
     review_count     |-> c.review_count,
     last_review_date |-> date_str,
     name             |-> c.name,
     tags             |-> c.tags,
     note             |-> c.note,
     images           |-> c.images]

review_updates(c, date_str) ==
    [ef               |-> c.ef,
     n                |-> c.n,
     interval         |-> c.interval,
     next_review      |-> IF c.next_review # None THEN strftime(c.next_review) ELSE None,
     review_count     |-> c.review_count,
     last_review_date |-> date_str]

\* the card_data dict of add_card_api and batch_add_cards
card_data(c, date_str, note, images, link) ==
    [card_id          |-> c.card_id,
     name             |-> c.name,
     first_date       |-> c.first_date,
     last_review_date |-> date_str,
     ef               |-> c.ef,
     n                |-> c.n,
     interval         |-> c.interval,
     next_review      |-> IF c.next_review # None THEN strftime(c.next_review) ELSE None,
     review_count     |-> c.review_count,
     tags             |-> c.tags,
     note             |-> note,
     images           |-> images,
     link             |-> link]

\* the test of a score: 0 <= score <= 5
score_in_range_unchecked(score) == TRUE

score_in_range(score) == 0 <= score /\ score <= 5

\* add_card_api from line 232 on: the card is built, reviewed and inserted
add_card_api_insert(d, data) ==
    { Outcome(add_card(d, card_data(c, data.first_date, "", <<>>, Get(data, "link", ""))),
              200,
              [message |-> "Card added successfully",
               card    |-> [card_id     |-> c.card_id,
                            name        |-> c.name,
                            next_review |-> strftime(c.next_review)]])
      : c \in review([SM2Card(data.card_id, data.first_date) EXCEPT
                         !.name = Get(data, "name", ""),
                         !.tags = Get(data, "tags", <<>>)],
                     data.score, strptime(data.first_date)) }

\* POST /api/cards/add
add_card_api_unchecked(d, data) ==
    LET card_id    == Get(data, "card_id", None)
        first_date == Get(data, "first_date", None)
    IN  IF card_id = None \/ first_date = None \/ "score" \notin DOMAIN data
        THEN {Outcome(d, 400, [error |-> "Missing required fields"])}
        ELSE IF ~ score_in_range(data.score)
        THEN {Outcome(d, 400, [error |-> "Score must be between 0-5"])}
        ELSE IF strptime(first_date) = None
        THEN {Outcome(d, 400, [error |-> "Invalid date format"])}
        ELSE add_card_api_insert(d, data)

add_card_api(d, data) ==
    LET card_id    == Get(data, "card_id", None)
        first_date == Get(data, "first_date", None)
    IN  IF card_id = None \/ first_date = None \/ "score" \notin DOMAIN data
        THEN {Outcome(d, 400, [error |-> "Missing required fields"])}
        ELSE IF ~ score_in_range(data.score)
        THEN {Outcome(d, 400, [error |-> "Score must be between 0-5"])}
        ELSE IF get_card(d, card_id) # None
        THEN {Outcome(d, 400, [error |-> "Card already exists"])}
        ELSE IF strptime(first_date) = None
        THEN {Outcome(d, 400, [error |-> "Invalid date format"])}
        ELSE add_card_api_insert(d, data)

\* review_card_api from line 288 on: the card is rebuilt from card_data_, the
\* document get_card returned, reviewed, and its new values are written
review_card_api_update(d, card_data_, data, now) ==
    LET review_date_str == Get(data, "review_date", now)
    IN  { Outcome(update_card(d, data.card_id, review_updates(c, review_date_str)),
                  200,
                  [message |-> "Review successful",
                   card    |-> [card_id      |-> c.card_id,
                                next_review  |-> strftime(c.next_review),
                                review_count |-> c.review_count]])
          : c \in review(card_of(card_data_), data.score, strptime(review_date_str)) }

\* POST /api/cards/review; now is datetime.now().strftime('%Y-%m-%d')
review_card_api(d, data, now) ==
    LET card_id         == Get(data, "card_id", None)
        review_date_str == Get(data, "review_date", now)
    IN  IF card_id = None \/ "score" \notin DOMAIN data
        THEN {Outcome(d, 400, [error |-> "Missing required fields"])}
        ELSE IF ~ score_in_range(data.score)
        THEN {Outcome(d, 400, [error |-> "Score must be between 0-5"])}
        ELSE IF strptime(review_date_str) = None
        THEN {Outcome(d, 400, [error |-> "Invalid date format"])}
        ELSE IF get_card(d, card_id) = None
        THEN {Outcome(d, 404, [error |-> "Card not found"])}
        ELSE review_card_api_update(d, get_card(d, card_id), data, now)

\* the loop of batch_add_cards over cards_list[i..]: the states [db, added,
\* reviewed] it can end in, from state st
RECURSIVE batch_loop_stops_at_invalid(_, _, _, _)
batch_loop_stops_at_invalid(st, cards_list, i, date_str) ==
    IF i > Len(cards_list) THEN {st}
    ELSE
      LET item    == cards_list[i]
          card_id == Get(item, "card_id", None)
      IN  IF card_id = None \/ "score" \notin DOMAIN item
             \/ ~ score_in_range(item.score)
          THEN {st}
          ELSE IF get_card(st.db, card_id) # None
          THEN UNION {
                 batch_loop_stops_at_invalid(
                     [db       |-> update_card(st.db, card_id, review_updates(c, date_str)),
                      added    |-> st.added,
                      reviewed |-> Append(st.reviewed, [card_id |-> card_id])],
                     cards_list, i + 1, date_str)
                 : c \in review(card_of(get_card(st.db, card_id)), item.score,
                                strptime(date_str)) }
          ELSE UNION {
                 batch_loop_stops_at_invalid(
                     [db       |-> add_card(st.db, card_data(c, date_str, "", <<>>, "")),
                      added    |-> Append(st.added, [card_id |-> card_id]),
                      reviewed |-> st.reviewed],
                     cards_list, i + 1, date_str)
                 : c \in review(SM2Card(card_id, date_str), item.score,
                                strptime(date_str)) }

RECURSIVE batch_loop(_, _, _, _)
batch_loop(st, cards_list, i, date_str) ==
    IF i > Len(cards_list) THEN {st}
    ELSE
      LET item    == cards_list[i]
          card_id == Get(item, "card_id", None)
      IN  IF card_id = None \/ "score" \notin DOMAIN item
             \/ ~ score_in_range(item.score)
          THEN batch_loop(st, cards_list, i + 1, date_str)
          ELSE IF get_card(st.db, card_id) # None
          THEN UNION {
                 batch_loop([db       |-> update_card(st.db, card_id, review_updates(c, date_str)),
                             added    |-> st.added,
                             reviewed |-> Append(st.reviewed, [card_id |-> card_id])],
                            cards_list, i + 1, date_str)
                 : c \in review(card_of(get_card(st.db, card_id)), item.score,
                                strptime(date_str)) }
          ELSE UNION {
                 batch_loop([db       |-> add_card(st.db, card_data(c, date_str, "", <<>>, "")),
                             added    |-> Append(st.added, [card_id |-> card_id]),
                             reviewed |-> st.reviewed],
                            cards_list, i + 1, date_str)
                 : c \in review(SM2Card(card_id, date_str), item.score,
                                strptime(date_str)) }

\* POST /api/cards/batch
batch_add_cards(d, data, now) ==
    LET cards_list == Get(data, "cards", <<>>)
        date_str   == Get(data, "date", now)
    IN  IF strptime(date_str) = None
        THEN {Outcome(d, 400, [error |-> "Invalid date format"])}
        ELSE { Outcome(st.db, 200,
                       [added |-> st.added, reviewed |-> st.reviewed, errors |-> <<>>])
               : st \in batch_loop([db |-> d, added |-> <<>>, reviewed |-> <<>>],
                                   cards_list, 1, date_str) }

\* update_card_api from line 404 on: the updates are collected and written.
\* An empty $set is a no-op for a MongoDB server from 5.0 on and a write
\* error, raised by update_one and answered 500, before.
update_card_api_update(d, data) ==
    LET card_id     == Get(data, "card_id", None)
        new_card_id == Get(data, "new_card_id", None)
        rename      == new_card_id # None /\ new_card_id # card_id
        updates     == [k \in ((DOMAIN data) \cap {"name", "tags", "note", "link"})
                               \cup (IF rename THEN {"card_id"} ELSE {}) |->
                           IF k = "card_id" THEN new_card_id ELSE data[k]]
    IN  IF DOMAIN updates = {}
        THEN {Outcome(d, 200, [message |-> "Update successful"]),
              Outcome(d, 500, [error |-> "Internal Server Error"])}
        ELSE {Outcome(update_card(d, card_id, updates), 200,
                      [message |-> "Update successful"])}

\* POST /api/cards/update
update_card_api_replacing(d, data) ==
    LET card_id     == Get(data, "card_id", None)
        new_card_id == Get(data, "new_card_id", None)
        rename      == new_card_id # None /\ new_card_id # card_id
        updates     == [k \in {"name", "tags", "note", "link"}
                               \cup (IF rename THEN {"card_id"} ELSE {}) |->
                           IF k = "card_id" THEN new_card_id
                           ELSE IF k = "tags" THEN Get(data, k, <<>>)
                           ELSE Get(data, k, "")]
    IN  IF card_id = None
        THEN {Outcome(d, 400, [error |-> "Missing card ID"])}
        ELSE IF get_card(d, card_id) = None
        THEN {Outcome(d, 404, [error |-> "Card not found"])}
        ELSE IF rename /\ get_card(d, new_card_id) # None
        THEN {Outcome(d, 400, [error |-> "New card ID already exists"])}
        ELSE {Outcome(update_card(d, card_id, updates), 200,
                      [message |-> "Update successful"])}

update_card_api_unchecked_rename(d, data) ==
    LET card_id == Get(data, "card_id", None)
    IN  IF card_id = None
        THEN {Outcome(d, 400, [error |-> "Missing card ID"])}
        ELSE IF get_card(d, card_id) = None
        THEN {Outcome(d, 404, [error |-> "Card not found"])}
        ELSE update_card_api_update(d, data)

update_card_api(d, data) ==
    LET card_id     == Get(data, "card_id", None)
        new_card_id == Get(data, "new_card_id", None)
        rename      == new_card_id # None /\ new_card_id # card_id
    IN  IF card_id = None
        THEN {Outcome(d, 400, [error |-> "Missing card ID"])}
        ELSE IF get_card(d, card_id) = None
        THEN {Outcome(d, 404, [error |-> "Card not found"])}
        ELSE IF rename /\ get_card(d, new_card_id) # None
        THEN {Outcome(d, 400, [error |-> "New card ID already exists"])}
        ELSE update_card_api_update(d, data)

\* DELETE /api/cards/<card_id>
delete_card_api(d, card_id) ==
    IF delete_card(d, card_id) # d
    THEN {Outcome(delete_card(d, card_id), 200, [message |-> "Card deleted successfully"])}
    ELSE {Outcome(d, 404, [error |-> "Card not found"])}

\* the test of get_due_cards on one document: next_review is a str here
is_due_before(card_data_, target_date) ==
    LET next_review == Get(card_data_, "next_review", None)
    IN  /\ next_review # None
        /\ strptime(next_review) # None
        /\ strptime(next_review)[1] < target_date[1]

is_due(card_data_, target_date) ==
    LET next_review == Get(card_data_, "next_review", None)
    IN  /\ next_review # None
        /\ strptime(next_review) # None
        /\ DatetimeLE(strptime(next_review), target_date)

\* the entry of the response of get_due_cards for one document
due_entry(doc) ==
    [card_id          |-> doc.card_id,
     name             |-> Get(doc, "name", ""),
     first_date       |-> doc.first_date,
     last_review_date |-> Get(doc, "last_review_date", doc.first_date),
     review_count     |-> Get(doc, "review_count", 0),
     next_review      |-> Get(doc, "next_review", None),
     tags             |-> Get(doc, "tags", <<>>),
     note             |-> Get(doc, "note", ""),
     images           |-> Get(doc, "images", <<>>),
     ef               |-> Get(doc, "ef", 250),
     interval         |-> Get(doc, "interval", 0),
     link             |-> Get(doc, "link", "")]

\* POST /api/cards/due
get_due_cards(d, data, now) ==
    LET date_str == Get(data, "date", now)
        Due(doc) == is_due(doc, strptime(date_str))
        due      == SelectSeq(get_user_cards(d), Due)
    IN  IF strptime(date_str) = None
        THEN {Outcome(d, 400, [error |-> "Invalid date format"])}
        ELSE {Outcome(d, 200,
                      [date  |-> date_str,
                       count |-> Len(due),
                       cards |-> [i \in 1..Len(due) |-> due_entry(due[i])]])}

(***************************************************************************)
(* SpecServer: the requests of one user, handled one after the other.      *)
(***************************************************************************)
\* reviews of one stored card (review_count) explored
MaxApiReviews == 2
\* items of the cards list of a batch request
MaxBatch == 1

ApiCardIds == {<<9>>, <<1, 0>>}

\* valid scores (a failure and a pass) and the scores next to the valid range
ApiScores == {2, 4}

BadScores == {-1, 6}

ApiDateStrs == {<<2024, 1, 1>>, <<2024, 1, 2>>}

\* a string that is no date
BadDateStr == <<2024, 2, 30>>

\* datetime.now().strftime('%Y-%m-%d') at the time of a request
NowStrs == {<<2024, 1, 2>>}

\* bodies of POST /api/cards/add
AddRequests ==
    {[card_id |-> id, first_date |-> <<2024, 1, 1>>, score |-> sc]
        : id \in ApiCardIds, sc \in ApiScores}
    \cup {[card_id |-> <<9>>, first_date |-> <<2024, 1, 1>>, score |-> sc] : sc \in BadScores}
    \cup {[card_id |-> <<9>>, first_date |-> BadDateStr, score |-> 4],
          [first_date |-> <<2024, 1, 1>>, score |-> 4],
          [card_id |-> <<9>>, score |-> 4],
          [card_id |-> <<9>>, first_date |-> <<2024, 1, 1>>]}

\* bodies of POST /api/cards/review
ReviewRequests ==
    {[card_id |-> id, score |-> sc, review_date |-> rd]
        : id \in ApiCardIds, sc \in ApiScores, rd \in ApiDateStrs}
    \cup {[card_id |-> <<9>>, score |-> sc, review_date |-> <<2024, 1, 2>>] : sc \in BadScores}
    \cup {[card_id |-> <<9>>, score |-> 4, review_date |-> BadDateStr],
          [card_id |-> <<9>>, score |-> 4],
          [score |-> 4, review_date |-> <<2024, 1, 2>>],
          [card_id |-> <<9>>, review_date |-> <<2024, 1, 2>>]}

\* items of a batch: a pass, a failure, one without card_id, one with a score
\* out of range
BatchItems ==
    {[card_id |-> <<9>>, score |-> 4], [card_id |-> <<1, 0>>, score |-> 2],
     [score |-> 4], [card_id |-> <<9>>, score |-> 6]}

BatchLists == UNION {[1..k -> BatchItems] : k \in 0..MaxBatch}

\* bodies of POST /api/cards/batch
BatchRequests ==
    {[cards |-> L, date |-> <<2024, 1, 1>>] : L \in BatchLists}
    \cup {[cards |-> <<[card_id |-> <<9>>, score |-> 4]>>, date |-> BadDateStr],
          [cards |-> <<[card_id |-> <<9>>, score |-> 4]>>],
          [date |-> <<2024, 1, 2>>]}

\* bodies of POST /api/cards/update: a rename, or nothing to change
UpdateRequests ==
    {[card_id |-> id, new_card_id |-> new] : id \in ApiCardIds, new \in ApiCardIds}
    \cup {[card_id |-> <<9>>], [new_card_id |-> <<9>>]}

\* bodies of POST /api/cards/due
DueRequests ==
    {[date |-> s] : s \in {<<2024, 1, 1>>, <<2024, 1, 3>>, <<2024, 1, 8>>, BadDateStr}}
    \cup {[x \in {} |-> None]}

\* the model stops reviewing a card that has MaxApiReviews reviews
Capped(d) == \A i \in 1..Len(d) : d[i].review_count <= MaxApiReviews

\* GET /health
health == [code |-> 200, json |-> [status |-> "ok"]]

InitServer ==
    /\ card = None
    /\ cards = <<>>
    /\ file = None
    /\ db = <<>>
    /\ resp = health
    /\ inflight = None

\* the request is handled: one of the handler's outcomes is stored and sent
Handled(outcomes) ==
    \E o \in outcomes :
       /\ Capped(o.db)
       /\ db' = o.db
       /\ resp' = o.resp
       /\ UNCHANGED <<card, cards, file, inflight>>

AddCardApi == \E data \in AddRequests : Handled(add_card_api(db, data))

ReviewCardApi ==
    \E data \in ReviewRequests, now \in NowStrs : Handled(review_card_api(db, data, now))

BatchAddCards ==
    \E data \in BatchRequests, now \in NowStrs : Handled(batch_add_cards(db, data, now))

UpdateCardApi == \E data \in UpdateRequests : Handled(update_card_api(db, data))

DeleteCardApi == \E card_id \in ApiCardIds : Handled(delete_card_api(db, card_id))

GetDueCards ==
    \E data \in DueRequests, now \in NowStrs : Handled(get_due_cards(db, data, now))

NextServer ==
    \/ AddCardApi
    \/ ReviewCardApi
    \/ BatchAddCards
    \/ UpdateCardApi
    \/ DeleteCardApi
    \/ GetDueCards

SpecServer == InitServer /\ [][NextServer]_vars

(***************************************************************************)
(* SpecUpdate: cards that carry descriptive metadata, changed by update    *)
(* requests and reviewed in between.                                       *)
(***************************************************************************)
\* bodies of POST /api/cards/add with name, tags and link
MetaAddRequests ==
    {[card_id |-> id, first_date |-> <<2024, 1, 1>>, score |-> 4,
      name |-> "Two Sum", tags |-> <<"array">>, link |-> "https://leetcode.com/a"]
        : id \in ApiCardIds}

\* the metadata of an update request: none, one field, two fields, all four
MetaChanges ==
    {[x \in {} |-> None],
     [name |-> "3Sum"],
     [tags |-> <<"hash">>, note |-> "seen"],
     [name |-> "3Sum", tags |-> <<"hash">>, note |-> "seen", link |-> "https://leetcode.com/b"]}

\* the request with these metadata for card_id, with new_card_id unless None
MetaUpdate(m, card_id, new_card_id) ==
    [k \in (DOMAIN m) \cup {"card_id"}
           \cup (IF new_card_id = None THEN {} ELSE {"new_card_id"}) |->
        IF k = "card_id" THEN card_id
        ELSE IF k = "new_card_id" THEN new_card_id
        ELSE m[k]]

\* bodies of POST /api/cards/update
MetaUpdateRequests ==
    {MetaUpdate(m, id, new) : m \in MetaChanges, id \in ApiCardIds,
                              new \in ApiCardIds \cup {None}}
    \cup {[name |-> "3Sum"]}

\* bodies of POST /api/cards/review
MetaReviewRequests ==
    {[card_id |-> id, score |-> sc, review_date |-> <<2024, 1, 2>>]
        : id \in ApiCardIds, sc \in ApiScores}

\* bodies of POST /api/cards/batch: one review or add
MetaBatchRequests ==
    {[cards |-> <<[card_id |-> id, score |-> 4]>>, date |-> <<2024, 1, 2>>]
        : id \in ApiCardIds}

MetaAddCardApi == \E data \in MetaAddRequests : Handled(add_card_api(db, data))

MetaUpdateCardApi == \E data \in MetaUpdateRequests : Handled(update_card_api(db, data))

MetaReviewCardApi ==
    \E data \in MetaReviewRequests, now \in NowStrs : Handled(review_card_api(db, data, now))

MetaBatchAddCards ==
    \E data \in MetaBatchRequests, now \in NowStrs : Handled(batch_add_cards(db, data, now))

NextUpdate ==
    \/ MetaAddCardApi
    \/ MetaUpdateCardApi
    \/ MetaReviewCardApi
    \/ MetaBatchAddCards

SpecUpdate == InitServer /\ [][NextUpdate]_vars

(***************************************************************************)
(* SpecBatch: batch requests of several items, and deletes.                *)
(***************************************************************************)
\* items of the cards list of a batch request of SpecBatch
MaxBatchLen == 2

BatchLoopRequests ==
    {[cards |-> L, date |-> s]
        : L \in UNION {[1..k -> BatchItems] : k \in 0..MaxBatchLen}, s \in ApiDateStrs}

BatchLoop ==
    \E data \in BatchLoopRequests, now \in NowStrs : Handled(batch_add_cards(db, data, now))

BatchDelete == \E card_id \in ApiCardIds : Handled(delete_card_api(db, card_id))

NextBatch ==
    \/ BatchLoop
    \/ BatchDelete

SpecBatch == InitServer /\ [][NextBatch]_vars

(***************************************************************************)
(* SpecConcurrent: two requests of one user handled at the same time, as   *)
(* the threaded server of app.run does. A handler takes no lock and opens  *)
(* no transaction, so each call of db.py is one step and the steps of the  *)
(* two handlers interleave; what a handler computes between two calls is   *)
(* local to it and is done with the call that follows.                     *)
(***************************************************************************)
\* documents the collection can hold in SpecConcurrent
MaxDocs == 2

\* the requests that arrive together
ConcurrentRequests ==
    {[op |-> "add", data |-> [card_id |-> id, first_date |-> <<2024, 1, 1>>, score |-> 4]]
        : id \in ApiCardIds}
    \cup {[op |-> "review",
           data |-> [card_id |-> <<9>>, score |-> 4, review_date |-> <<2024, 1, 2>>]],
          [op |-> "update", data |-> [card_id |-> <<9>>, new_card_id |-> <<1, 0>>]],
          [op |-> "delete", data |-> [card_id |-> <<9>>]]}

\* a handler at its first call of db.py: delete_card for a delete, get_card
\* for the others; card_data is what its get_card returned
Thread(req) ==
    [req       |-> req,
     pc        |-> IF req.op = "delete" THEN "delete_card" ELSE "get_card",
     card_data |-> None]

\* thread t is at pc
At(t, pc) == inflight # None /\ inflight.threads[t].pc = pc

\* thread t goes on to pc, with card_data read
Goes(t, pc, card_data_) ==
    /\ inflight' = [inflight EXCEPT !.threads[t].pc = pc,
                                    !.threads[t].card_data = card_data_]
    /\ UNCHANGED <<card, cards, file, db, resp>>

\* the handler of thread t returns: outcome o is stored and sent
Returns(t, o) ==
    /\ inflight' = [inflight EXCEPT !.threads[t].pc = "done"]
    /\ db' = o.db
    /\ resp' = o.resp
    /\ UNCHANGED <<card, cards, file>>

\* two requests arrive; base is the collection they find
Arrive ==
    /\ inflight = None
    /\ \E r1, r2 \in ConcurrentRequests :
          inflight' = [base |-> db, threads |-> <<Thread(r1), Thread(r2)>>]
    /\ UNCHANGED <<card, cards, file, db, resp>>

\* lines 224, 284, 394: get_card(user_id, card_id) and the test of its result
ThreadGetCard(t) ==
    /\ At(t, "get_card")
    /\ LET req   == inflight.threads[t].req
           found == get_card(db, req.data.card_id)
       IN  IF req.op = "add"
           THEN IF found # None
                THEN Returns(t, Outcome(db, 400, [error |-> "Card already exists"]))
                ELSE Goes(t, "add_card", found)
           ELSE IF found = None
           THEN Returns(t, Outcome(db, 404, [error |-> "Card not found"]))
           ELSE IF req.op = "review" THEN Goes(t, "update_card", found)
           ELSE Goes(t, "get_new_card", found)

\* lines 399-402: get_card(user_id, new_card_id) of an update that renames
ThreadGetNewCard(t) ==
    /\ At(t, "get_new_card")
    /\ LET th == inflight.threads[t]
       IN  IF get_card(db, th.req.data.new_card_id) # None
           THEN Returns(t, Outcome(db, 400, [error |-> "New card ID already exists"]))
           ELSE Goes(t, "update_card", th.card_data)

\* line 253: add_card(user_id, card_data)
ThreadAddCard(t) ==
    /\ At(t, "add_card")
    /\ \E o \in add_card_api_insert(db, inflight.threads[t].req.data) :
          Len(o.db) <= MaxDocs /\ Returns(t, o)

\* lines 305 and 416: update_card(user_id, card_id, updates); the updates of
\* a review come from the document the handler read
ThreadUpdateCard(t) ==
    /\ At(t, "update_card")
    /\ LET th == inflight.threads[t]
       IN  \E now \in NowStrs :
           \E o \in (IF th.req.op = "review"
                     THEN review_card_api_update(db, th.card_data, th.req.data, now)
                     ELSE update_card_api_update(db, th.req.data)) :
              Capped(o.db) /\ Returns(t, o)

\* line 424: delete_card(user_id, card_id)
ThreadDeleteCard(t) ==
    /\ At(t, "delete_card")
    /\ \E o \in delete_card_api(db, inflight.threads[t].req.data.card_id) : Returns(t, o)

\* both requests are answered
BothDone == At(1, "done") /\ At(2, "done")

Depart ==
    /\ BothDone
    /\ inflight' = None
    /\ UNCHANGED <<card, cards, file, db, resp>>

NextConcurrent ==
    \/ Arrive
    \/ \E t \in {1, 2} : ThreadGetCard(t)
    \/ \E t \in {1, 2} : ThreadGetNewCard(t)
    \/ \E t \in {1, 2} : ThreadAddCard(t)
    \/ \E t \in {1, 2} : ThreadUpdateCard(t)
    \/ \E t \in {1, 2} : ThreadDeleteCard(t)
    \/ Depart

SpecConcurrent == InitServer /\ [][NextConcurrent]_vars

(***************************************************************************)
(* Claims about SM2Card.review, checked under Spec.                        *)
(***************************************************************************)
\* the last call was card.review(q, ..) with q in qs
Reviewed(qs) == resp.op = "review" /\ resp.score \in qs

\* k is a nearest integer of the float given in hundredths
IsNearest(k, x100) == (100 * k - x100) \in -50..50

\* C1: after any sequence of reviews of a new card with ratings 0..5 the
\* easiness factor is at least 1.3.
C1_EfAtLeastMinimum == card.ef >= 130

\* C1 witness: a rating 0 given to a card whose ef is already 1.3.
C1_Witness ==
    /\ Reviewed({0})
    /\ resp.before.ef = 130
    /\ resp.before.review_count >= 2
    /\ card.ef = 130

\* C2: a review with rating below 3 leaves n = 0 and interval = 1 whatever n
\* and interval were; so n = 0 whenever the most recent rating was below 3.
C2_FailResets == Reviewed({0, 1, 2}) => (card.n = 0 /\ card.interval = 1)

\* C2 witness: a failed review of a card that had a streak of three passes.
C2_Witness ==
    /\ Reviewed({0, 1, 2})
    /\ resp.before.n >= 3
    /\ resp.before.interval > 6
    /\ card.n = 0
    /\ card.interval = 1

\* C3: a passing review adds one to n and sets interval to 1 on the first pass
\* of a streak, 6 on the second and round(previous interval * new ef) from the
\* third on; n is 0 after a failure, so the two passes after it give 1 and 6.
C3_PassInterval ==
    Reviewed({3, 4, 5}) =>
        /\ card.n = resp.before.n + 1
        /\ (card.n = 1 => card.interval = 1)
        /\ (card.n = 2 => card.interval = 6)
        /\ (card.n >= 3 => IsNearest(card.interval, resp.before.interval * card.ef))

\* C3 witness: the third pass after a failure: the streak restarted (n is
\* behind review_count), its second pass gave 6 and this one rounds 6 * ef,
\* where the ef before this review would give another interval.
C3_Witness ==
    /\ Reviewed({3, 4, 5})
    /\ card.n = 3
    /\ card.review_count > 3
    /\ resp.before.interval = 6
    /\ ~ IsNearest(card.interval, resp.before.interval * resp.before.ef)

(***************************************************************************)
(* Claims about the request handlers, checked under SpecServer.            *)
(***************************************************************************)
\* the message of a response, "" if it has none
Message(r) == Get(r.json, "message", "")

\* the response is the answer to a due query that was accepted
IsDueResponse(r) == r.code = 200 /\ "cards" \in DOMAIN r.json

\* a <= b for two date strings, compared as the str 'YYYY-MM-DD' are
DateStrLE(a, b) ==
    \/ a[1] < b[1]
    \/ a[1] = b[1] /\ a[2] < b[2]
    \/ a[1] = b[1] /\ a[2] = b[2] /\ a[3] <= b[3]

\* review_count of the stored card, 0 if there is none
ReviewCountOf(d, id) == IF get_card(d, id) = None THEN 0 ELSE get_card(d, id).review_count

Occurrences(L, id) == Cardinality({i \in 1..Len(L) : L[i].card_id = id})

\* the number of reviews of card id that a response reports: one for an add or
\* a review of id, one for each entry of id in the lists of a batch
ReviewsReported(r, id) ==
    IF r.code # 200 THEN 0
    ELSE IF "card" \in DOMAIN r.json
    THEN (IF r.json.card.card_id = id THEN 1 ELSE 0)
    ELSE IF "added" \in DOMAIN r.json
    THEN Occurrences(r.json.added, id) + Occurrences(r.json.reviewed, id)
    ELSE 0

\* C4: the stored next_review is the date of the review that wrote it (kept as
\* last_review_date) plus the interval that review computed, in calendar
\* days, whatever first_date and the earlier next_review were.
C4_NextReviewIsReviewDatePlusInterval ==
    \A i \in 1..Len(db) :
        /\ db[i].next_review # None
        /\ strptime(db[i].next_review) # None
        /\ strptime(db[i].next_review)[1]
               = strptime(db[i].last_review_date)[1] + db[i].interval

\* C4 witness: a card added on 2024-01-01 and reviewed with a pass the day
\* after is due six days after that review.
C4_Witness ==
    /\ Message(resp) = "Review successful"
    /\ \E i \in 1..Len(db) :
          /\ db[i].card_id = resp.json.card.card_id
          /\ db[i].first_date = <<2024, 1, 1>>
          /\ db[i].last_review_date = <<2024, 1, 2>>
          /\ db[i].interval = 6
          /\ db[i].next_review = <<2024, 1, 8>>

\* C5: a request that reports k reviews of a card (an add, a review, the
\* entries of a batch) raises its stored review_count by k, each review by
\* one, pass or fail; a card that was not stored counts from 0.
C5_ReviewCountsOne ==
    [][ \A id \in ApiCardIds :
           ReviewsReported(resp', id) > 0
               => ReviewCountOf(db', id) = ReviewCountOf(db, id) + ReviewsReported(resp', id)
      ]_vars

\* C5 witness: a failed review answered with review_count 2.
C5_Witness ==
    /\ Message(resp) = "Review successful"
    /\ resp.json.card.review_count = 2
    /\ get_card(db, resp.json.card.card_id).review_count = 2
    /\ get_card(db, resp.json.card.card_id).n = 0

\* C6: every stored card is in a reviewed state: review_count >= 1,
\* interval >= 1 and next_review present.
C6_StoredCardsAreReviewed ==
    \A i \in 1..Len(db) :
        /\ db[i].review_count >= 1
        /\ db[i].interval >= 1
        /\ db[i].next_review # None

\* C6 witness: a card that was added with a failing score, renamed, and is
\* stored next to another one.
C6_Witness ==
    /\ Message(resp) = "Update successful"
    /\ Len(db) = 2
    /\ db[2].card_id = <<9>>
    /\ db[1].card_id = <<1, 0>>
    /\ db[1].review_count = 1
    /\ db[1].n = 0

C8_DueIsSortedByCardId ==
    IsDueResponse(resp) =>
        \A j \in 1..(Len(resp.json.cards) - 1) :
            StrLess(resp.json.cards[j].card_id, resp.json.cards[j + 1].card_id)

(***************************************************************************)
(* Claims about SM2System, checked under SpecSystem.                       *)
(***************************************************************************)
\* the last call was op(card_id, ..) and the card was there before (or not)
Called(op, present) ==
    /\ resp.op = op
    /\ (cards_get(resp.before.cards, resp.card_id) # None) = present

\* the call left self.cards and the file as they were
NothingChanged == cards = resp.before.cards /\ file = resp.before.file

\* C9: adding a card_id that is already in the collection fails with a
\* duplicate-item error and leaves the collection as it was.
C9_DuplicateAddFails ==
    Called("add_card", TRUE) => (resp.status = "DuplicateItem" /\ NothingChanged)

ScenarioCard(ef, n, interval, next_review, review_count) ==
    [SM2Card(<<1, 0>>, <<2024, 1, 1>>) EXCEPT
        !.ef = ef, !.n = n, !.interval = interval,
        !.next_review = IF next_review = None THEN None ELSE strptime(next_review),
        !.review_count = review_count]

\* the last call was review(q, date) on the card before
ScenarioStep(before, q, date) ==
    Reviewed({q}) /\ resp.before = before /\ resp.date = date

\* the second and the third review of the scenario, and its end
ScenarioSecond ==
    ScenarioStep(ScenarioCard(250, 1, 1, <<2024, 1, 2>>, 1), 4, <<2024, 1, 2>>)
        => card = ScenarioCard(250, 2, 6, <<2024, 1, 8>>, 2)

ScenarioThird ==
    ScenarioStep(ScenarioCard(250, 2, 6, <<2024, 1, 8>>, 2), 2, <<2024, 1, 8>>)
        => /\ card = ScenarioCard(card.ef, 0, 1, <<2024, 1, 9>>, 3)
           /\ card.ef < resp.before.ef

\* C11, as claimed: the first review of a new card with first date 2024-01-01,
\* rating 4 on 2024-01-01, gives EF = 2.6, n = 1, interval = 1, next review
\* 2024-01-02 and review_count = 1; the second and third reviews as below.
C11_ScenarioEf26 ==
    /\ ScenarioStep(ScenarioCard(250, 0, 0, None, 0), 4, <<2024, 1, 1>>)
           => card = ScenarioCard(260, 1, 1, <<2024, 1, 2>>, 1)
    /\ ScenarioSecond
    /\ ScenarioThird

\* C11, amended: the first review (rating 4 on 2024-01-01) leaves EF = 2.5 and
\* gives n = 1, interval = 1, next review 2024-01-02, review_count = 1; the
\* second (rating 4 on 2024-01-02) gives n = 2, interval = 6, next review
\* 2024-01-08, review_count = 2; the third (rating 2 on 2024-01-08) gives
\* n = 0, interval = 1, next review 2024-01-09, review_count = 3 and a lower EF.
C11_ScenarioEf25 ==
    /\ ScenarioStep(ScenarioCard(250, 0, 0, None, 0), 4, <<2024, 1, 1>>)
           => card = ScenarioCard(250, 1, 1, <<2024, 1, 2>>, 1)
    /\ ScenarioSecond
    /\ ScenarioThird

\* C11 witness: the end of the scenario: the third review, rating 2 on
\* 2024-01-08, of the card left by the two reviews with rating 4.
C11_Witness ==
    /\ ScenarioStep(ScenarioCard(250, 2, 6, <<2024, 1, 8>>, 2), 2, <<2024, 1, 8>>)
    /\ card = ScenarioCard(218, 0, 1, <<2024, 1, 9>>, 3)

(***************************************************************************)
(* Claims about the save file of SM2System, checked under SpecSystem.      *)
(***************************************************************************)
\* the fields of a record of the persistence contract
RecordFields ==
    {"first_date", "ef", "n", "interval", "next_review", "review_count",
     "name", "tags", "note", "images", "link"}

\* self.cards saved and loaded again is self.cards
CardsSurviveSaveLoad == SM2System_load(SM2System_save(cards)) = cards

\* the file loaded and saved again holds the same cards with the same value,
\* or absence, of every field of the contract
RecordsSurviveLoadSave ==
    file # None =>
        LET g == SM2System_save(SM2System_load(file))
        IN  /\ Len(g) = Len(file)
            /\ \A i \in 1..Len(file) :
                  /\ g[i].card_id = file[i].card_id
                  /\ \A k \in RecordFields : Get(g[i], k, None) = Get(file[i], k, None)

\* C12: saving and loading again is lossless: the same card ids and, for
\* each, the same first date, EF, n, interval, next review, review count,
\* name, tags, note, images and link.
C12_SaveLoadIsLossless == CardsSurviveSaveLoad /\ RecordsSurviveLoadSave

(***************************************************************************)
(* Claims about update requests, checked under SpecUpdate. The response    *)
(* does not tell the request, so each is stated for every request the      *)
(* model sends and every outcome the handler has for it in the state.      *)
(***************************************************************************)
\* the descriptive fields an update request can carry
MetadataFields == {"name", "tags", "note", "link"}

\* the response [code, {error: text}]
Error(code, text) == [code |-> code, json |-> [error |-> text]]

\* outcome o of the update request data in collection d: the card data names
\* differs only in the metadata fields data carries (which take the values of
\* data when the request succeeds) and in card_id, which can become the
\* new_card_id of data; the other cards are as they were; if no card has the
\* card_id, the answer is 404 and nothing has changed
UpdateChangesOnlyPresent(data, d, o) ==
    LET card_id == Get(data, "card_id", None)
        i       == IndexOf(d, card_id)
    IN  IF card_id = None THEN o.db = d
        ELSE IF i = 0 THEN o.db = d /\ o.resp = Error(404, "Card not found")
        ELSE /\ Len(o.db) = Len(d)
             /\ \A j \in 1..Len(d) : j # i => o.db[j] = d[j]
             /\ DOMAIN o.db[i] = DOMAIN d[i]
             /\ o.db[i].card_id \in {card_id, Get(data, "new_card_id", card_id)}
             /\ \A k \in (DOMAIN d[i]) \ {"card_id"} :
                   o.db[i][k] # d[i][k] => k \in MetadataFields \cap DOMAIN data
             /\ \A k \in MetadataFields \cap DOMAIN data :
                   o.db[i][k] = IF o.resp.code = 200 THEN data[k] ELSE d[i][k]

\* C13: an update of a stored card changes only the metadata fields (name,
\* tags, note, link) present in the request; the absent ones, the scheduling
\* fields (ef, n, interval, next_review, review_count, first_date) and every
\* other card are unchanged. An update of a card_id that is not stored is
\* answered 404 'Card not found' and changes nothing.
C13_UpdateChangesOnlyPresentFields ==
    \A data \in MetaUpdateRequests :
        \A o \in update_card_api(db, data) : UpdateChangesOnlyPresent(data, db, o)

\* C13 witness: an update has renamed one of two stored cards to "3Sum" and
\* left its tags, note, link and its two reviews, and the other card.
C13_Witness ==
    /\ Message(resp) = "Update successful"
    /\ Len(db) = 2
    /\ db[1].name = "3Sum"
    /\ db[1].tags = <<"array">>
    /\ db[1].note = ""
    /\ db[1].link = "https://leetcode.com/a"
    /\ db[1].review_count = 2
    /\ db[2].name = "Two Sum"

\* the update request data asks for a card_id that another stored card has
RenameCollides(d, data) ==
    /\ Get(data, "card_id", None) # None
    /\ get_card(d, data.card_id) # None
    /\ Get(data, "new_card_id", None) # None
    /\ data.new_card_id # data.card_id
    /\ get_card(d, data.new_card_id) # None

\* C14: an update whose new_card_id is the card_id of another stored card is
\* answered 400 'New card ID already exists' and changes nothing: not the
\* card to rename, not the other card, no metadata field of the request.
C14_RenameCollisionChangesNothing ==
    \A data \in MetaUpdateRequests :
        RenameCollides(db, data) =>
            \A o \in update_card_api(db, data) :
                o.db = db /\ o.resp = Error(400, "New card ID already exists")

\* C14 witness: a rename was refused while two cards are stored, both with
\* the name they were added with, one of them reviewed twice.
C14_Witness ==
    /\ resp = Error(400, "New card ID already exists")
    /\ Len(db) = 2
    /\ db[1].name = "Two Sum"
    /\ db[2].name = "Two Sum"
    /\ db[1].review_count = 2
    /\ db[1].card_id # db[2].card_id

(***************************************************************************)
(* Claims about delete, add and review requests, checked under SpecServer. *)
(***************************************************************************)
\* the collection without the cards of this card_id
Without(d, card_id) == LET Other(doc) == doc.card_id # card_id IN SelectSeq(d, Other)

\* C15: deleting a stored card_id succeeds (200) and removes that card and
\* no other; deleting a card_id that is not stored is answered 404 'Card not
\* found' and changes nothing; so a second delete of the same card_id, right
\* after the first, is a reported no-op.
C15_DeleteRemovesExactlyThatCard ==
    \A card_id \in ApiCardIds :
        \A o \in delete_card_api(db, card_id) :
            IF get_card(db, card_id) # None
            THEN /\ o.resp = [code |-> 200, json |-> [message |-> "Card deleted successfully"]]
                 /\ o.db = Without(db, card_id)
                 /\ Len(o.db) = Len(db) - 1
                 /\ \A o2 \in delete_card_api(o.db, card_id) :
                       o2.db = o.db /\ o2.resp = Error(404, "Card not found")
            ELSE o.db = db /\ o.resp = Error(404, "Card not found")

\* C15 witness: a card was deleted and another, reviewed twice, is still
\* stored.
C15_Witness ==
    /\ Message(resp) = "Card deleted successfully"
    /\ Len(db) = 1
    /\ db[1].review_count = 2

\* C17: no two stored cards have the same card_id, after any series of add,
\* batch, review, update (rename) and delete requests handled one at a time.
C17_CardIdsAreUnique ==
    \A i, j \in 1..Len(db) : db[i].card_id = db[j].card_id => i = j

\* C17 witness: an add of a card_id that is stored was refused, two cards
\* being stored.
C17_Witness ==
    /\ resp = Error(400, "Card already exists")
    /\ Len(db) = 2
    /\ db[1].card_id # db[2].card_id

\* the request has a score and it is outside 0..5
ScoreOutOfRange(data) == "score" \in DOMAIN data /\ data.score \notin 0..5

\* C18: an add or review request whose score is outside 0..5 is answered
\* with an error (400) and the collection is unchanged: review() is not run.
C18_OutOfRangeScoreRejected ==
    /\ \A data \in AddRequests :
          ScoreOutOfRange(data) =>
              \A o \in add_card_api(db, data) :
                  o.db = db /\ o.resp = Error(400, "Score must be between 0-5")
    /\ \A data \in ReviewRequests, now \in NowStrs :
          ScoreOutOfRange(data) =>
              \A o \in review_card_api(db, data, now) :
                  o.db = db /\ o.resp = Error(400, "Score must be between 0-5")

\* C18 witness: a score was refused while the card the request names is
\* stored, with one review.
C18_Witness ==
    /\ resp = Error(400, "Score must be between 0-5")
    /\ get_card(db, <<9>>) # None
    /\ get_card(db, <<9>>).review_count = 1

(***************************************************************************)
(* Claims about the loop of a batch request, checked under SpecBatch.      *)
(***************************************************************************)
\* a pair of a batch that has a card_id and a score in 0..5
ValidPair(item) ==
    /\ Get(item, "card_id", None) # None
    /\ "score" \in DOMAIN item
    /\ item.score \in 0..5

\* the collections left by one add request (if card_id is not stored) or one
\* review request (if it is) for each valid pair of cards_list[i..], in list
\* order, from collection d
RECURSIVE OneByOne(_, _, _, _, _)
OneByOne(d, cards_list, i, date_str, now) ==
    IF i > Len(cards_list) THEN {d}
    ELSE IF ~ ValidPair(cards_list[i]) THEN OneByOne(d, cards_list, i + 1, date_str, now)
    ELSE LET item == cards_list[i]
             outcomes ==
                 IF get_card(d, item.card_id) = None
                 THEN add_card_api(d, [card_id |-> item.card_id, first_date |-> date_str,
                                       score |-> item.score])
                 ELSE review_card_api(d, [card_id |-> item.card_id, score |-> item.score,
                                          review_date |-> date_str], now)
         IN  UNION {OneByOne(o.db, cards_list, i + 1, date_str, now) : o \in outcomes}

\* C16: a batch leaves the collection as the add or review requests of its
\* valid pairs would, one after the other in list order, a card_id added by
\* an earlier pair being reviewed by a later one; a pair without card_id or
\* with a score outside 0..5 is skipped and the pairs after it are processed.
C16_BatchIsAddOrReviewInOrder ==
    \A data \in BatchLoopRequests, now \in NowStrs :
        {o.db : o \in batch_add_cards(db, data, now)}
            = OneByOne(db, data.cards, 1, data.date, now)

\* C16 witness: a batch has added "9" and reviewed it again after a pair that
\* was skipped or with the same pair twice: the card has two passes.
C16_Witness ==
    /\ resp.code = 200
    /\ "added" \in DOMAIN resp.json
    /\ resp.json.added = <<[card_id |-> <<9>>]>>
    /\ resp.json.reviewed = <<[card_id |-> <<9>>]>>
    /\ get_card(db, <<9>>).review_count = 2
    /\ get_card(db, <<9>>).n = 2
    /\ get_card(db, <<9>>).interval = 6

(***************************************************************************)
(* Claims about the frame of a review, checked under SpecUpdate.           *)
(***************************************************************************)
\* what a review must not touch
DescriptionFields == {"card_id", "first_date", "name", "tags", "note", "images", "link"}

\* from collection d to d2 the cards of ids kept their description and the
\* other cards everything; cards may have been appended
KeepsDescription(d, d2, ids) ==
    /\ Len(d2) >= Len(d)
    /\ \A j \in 1..Len(d) :
          IF d[j].card_id \in ids
          THEN /\ DOMAIN d2[j] = DOMAIN d[j]
               /\ \A k \in DescriptionFields : d2[j][k] = d[j][k]
          ELSE d2[j] = d[j]

\* C19: a review of a card, by a review request or by a pair of a batch,
\* leaves its first_date, card_id, name, tags, note, images and link as they
\* were, and every other card unchanged.
C19_ReviewKeepsDescription ==
    /\ \A data \in MetaReviewRequests, now \in NowStrs :
          \A o \in review_card_api(db, data, now) :
              KeepsDescription(db, o.db, {data.card_id}) /\ Len(o.db) = Len(db)
    /\ \A data \in MetaBatchRequests, now \in NowStrs :
          \A o \in batch_add_cards(db, data, now) :
              KeepsDescription(db, o.db, {data.cards[i].card_id : i \in 1..Len(data.cards)})

\* C19 witness: a review request was the second review of a card whose name,
\* tags, note and link an update had set, another card being stored.
C19_Witness ==
    /\ Message(resp) = "Review successful"
    /\ Len(db) = 2
    /\ resp.json.card.review_count = 2
    /\ get_card(db, resp.json.card.card_id).name = "3Sum"
    /\ get_card(db, resp.json.card.card_id).tags = <<"hash">>
    /\ get_card(db, resp.json.card.card_id).note = "seen"
    /\ get_card(db, resp.json.card.card_id).link = "https://leetcode.com/b"
    /\ get_card(db, resp.json.card.card_id).first_date = <<2024, 1, 1>>

(***************************************************************************)
(* Claims about requests handled at the same time, checked under           *)
(* SpecConcurrent.                                                         *)
(***************************************************************************)
\* the collections the handler of req leaves when it runs alone from d
Run(d, req) ==
    {o.db : o \in
        IF req.op = "add" THEN add_card_api(d, req.data)
        ELSE IF req.op = "review"
        THEN UNION {review_card_api(d, req.data, now) : now \in NowStrs}
        ELSE IF req.op = "update" THEN update_card_api(d, req.data)
        ELSE delete_card_api(d, req.data.card_id)}

\* the collections r1 and r2 leave when one runs after the other, from d
Serial(d, r1, r2) ==
    UNION {Run(d1, r2) : d1 \in Run(d, r1)} \cup UNION {Run(d2, r1) : d2 \in Run(d, r2)}

\* C20: when the two requests handled at the same time are both answered,
\* the collection is one that the two leave when handled one after the other,
\* in one of the two orders, from the collection they found; so two reviews
\* of one card count two and two adds of one card_id store one card.
C20_ConcurrentRequestsSerialize ==
    BothDone =>
        db \in Serial(inflight.base, inflight.threads[1].req, inflight.threads[2].req)

(***************************************************************************)
(* Claims about a streak of passes, checked under Spec.                    *)
(***************************************************************************)
\* C21: within a streak of passes (the review before this pass was a pass
\* too: n was at least 1) the interval is not smaller than it was, and from
\* the third pass of the streak on it is at least 6.
C21_IntervalGrowsInStreak ==
    Reviewed({3, 4, 5}) =>
        /\ (resp.before.n >= 1 => card.interval >= resp.before.interval)
        /\ (card.n >= 3 => card.interval >= 6)

\* C21 witness: the third pass of a streak at the lowest easiness factor,
\* 1.3, after two failures: the interval goes from 6 to round(7.8) = 8.
C21_Witness ==
    /\ Reviewed({3})
    /\ card.ef = 130
    /\ card.n = 3
    /\ resp.before.n = 2
    /\ resp.before.interval = 6
    /\ card.interval = 8

(***************************************************************************)
(* Claims about when a card is due. A date asked for is passed as the      *)
(* datetime of its midnight, which is what strptime gives.                 *)
(***************************************************************************)
\* the card of this card_id is in the list L
Listed(L, card_id) == \E j \in 1..Len(L) : L[j].card_id = card_id

\* the request handler: for every due request with a date and every stored
\* card, the card is returned exactly if the date is on or after its
\* last_review_date plus its interval; holds under SpecServer
HandlerDueFromReviewDatePlusInterval ==
    \A data \in DueRequests, now \in NowStrs :
        \A o \in get_due_cards(db, data, now) :
            o.resp.code = 200 =>
                \A i \in 1..Len(db) :
                    Listed(o.resp.json.cards, db[i].card_id)
                        <=> strptime(o.resp.json.date)[1]
                                >= strptime(db[i].last_review_date)[1] + db[i].interval

\* C22, checked under SpecSystem: a card added or reviewed with review date d
\* and resulting interval k has its next review on the day of d plus k days,
\* and get_due_cards returns it for no date before that day and for every
\* date from that day on.
C22_DueFromReviewDatePlusInterval ==
    /\ (resp.op \in {"add_card", "review_card"} /\ cards_get(cards, resp.card_id) # None)
           => LET c == cards_get(cards, resp.card_id)
              IN  strftime(c.next_review) = strftime(<<resp.date[1] + c.interval, 0>>)
    /\ resp.op = "get_due_cards"
           => \A i \in 1..Len(cards) :
                 Listed(resp.body, cards[i].card_id)
                     <=> DateStrLE(strftime(cards[i].next_review), strftime(resp.date))

====
